---- MODULE Spec2Model ----
(***************************************************************************)
(* Model of the chess move engine of src/main.py: the piece rule set, the  *)
(* Board (an 8x8 grid of optional pieces) and the Game turn state machine, *)
(* driven through the /move endpoint.                                      *)
(***************************************************************************)
EXTENDS Integers, Sequences, FiniteSets, TLC

VARIABLES board, current_player, call, ply, probe, verdict, thr

vars == <<board, current_player, call, ply, probe, verdict, thr>>

(***************************************************************************)
(* Bounds and input sets                                                   *)
(***************************************************************************)
\* number of successful moves explored from the starting position
MaxMoves == 2

\* the rule probes draw coordinates from -RuleMargin .. 7 + RuleMargin
RuleMargin == 1

\* range(8) and 0 <= to_x < 8
BoardSize == 8

Idx == 0 .. (BoardSize - 1)

\* ranks and files the requests of /move are drawn from: both back ranks,
\* the white pawn rank, an empty rank, values that Python wraps (-1) and
\* values outside every index range (8, -9); the files hold every piece kind
RankInputs == {-1, 0, 5, 6, 7, 8}
FileInputs == {-9, 0, 1, 2, 3, 4}
InputSquares == RankInputs \X FileInputs

RuleCoords == (0 - RuleMargin) .. (BoardSize - 1 + RuleMargin)
RuleSquares == RuleCoords \X RuleCoords

Players == {"white", "black"}
Kinds == {"King", "Queen", "Rook", "Bishop", "Knight", "Pawn"}

(***************************************************************************)
(* Pieces                                                                  *)
(***************************************************************************)
\* the None of an empty cell
None == [kind |-> "None", color |-> "none"]

\* the IndexError a list subscript raises, in the place of a looked-up value
IndexError == [kind |-> "IndexError", color |-> "none"]

Piece(kind, color) == [kind |-> kind, color |-> color]

Abs(x) == IF x < 0 THEN 0 - x ELSE x

Bool(b) == IF b THEN "True" ELSE "False"

KingMove(position_from, position_to) ==
    LET from_x == position_from[1]
        from_y == position_from[2]
        to_x == position_to[1]
        to_y == position_to[2]
    IN Bool(Abs(from_x - to_x) <= 1 /\ Abs(from_y - to_y) <= 1)

RookMove(position_from, position_to) ==
    LET from_x == position_from[1]
        from_y == position_from[2]
        to_x == position_to[1]
        to_y == position_to[2]
    IN Bool(from_x = to_x \/ from_y = to_y)

KnightMove(position_from, position_to) ==
    LET dx == Abs(position_from[1] - position_to[1])
        dy == Abs(position_from[2] - position_to[2])
    IN Bool((dx = 2 /\ dy = 1) \/ (dx = 1 /\ dy = 2))

BishopMove(position_from, position_to) ==
    LET from_x == position_from[1]
        from_y == position_from[2]
        to_x == position_to[1]
        to_y == position_to[2]
    IN Bool(Abs(from_x - to_x) = Abs(from_y - to_y))

\* Rook() and Bishop() are built without the colour Piece.__init__ requires:
\* the constructor call raises TypeError before either rule is evaluated
QueenMove(position_from, position_to) == "TypeError"

\* variant: the pawn steps along its file instead of along its rank
PawnMoveAlongFile(position_from, position_to) ==
    LET from_x == position_from[1]
        from_y == position_from[2]
        to_x == position_to[1]
        to_y == position_to[2]
    IN Bool(from_y = to_y /\ Abs(from_x - to_x) = 1)

PawnMove(position_from, position_to) ==
    LET from_x == position_from[1]
        from_y == position_from[2]
        to_x == position_to[1]
        to_y == position_to[2]
    IN Bool(from_x = to_x /\ Abs(from_y - to_y) = 1)

\* piece.move(position_from, position_to): dispatch on the piece's class
PieceMove(kind, position_from, position_to) ==
    CASE kind = "King" -> KingMove(position_from, position_to)
      [] kind = "Rook" -> RookMove(position_from, position_to)
      [] kind = "Knight" -> KnightMove(position_from, position_to)
      [] kind = "Bishop" -> BishopMove(position_from, position_to)
      [] kind = "Queen" -> QueenMove(position_from, position_to)
      [] kind = "Pawn" -> PawnMove(position_from, position_to)

(***************************************************************************)
(* Board                                                                   *)
(***************************************************************************)
\* variant: King and Queen stand on each other's file
BackRankKingFirst(color) ==
    [c \in Idx |->
        CASE c \in {0, 7} -> Piece("Rook", color)
          [] c \in {1, 6} -> Piece("Knight", color)
          [] c \in {2, 5} -> Piece("Bishop", color)
          [] c = 3 -> Piece("King", color)
          [] c = 4 -> Piece("Queen", color)]

BackRank(color) ==
    [c \in Idx |->
        CASE c \in {0, 7} -> Piece("Rook", color)
          [] c \in {1, 6} -> Piece("Knight", color)
          [] c \in {2, 5} -> Piece("Bishop", color)
          [] c = 3 -> Piece("Queen", color)
          [] c = 4 -> Piece("King", color)]

PawnRank(color) == [c \in Idx |-> Piece("Pawn", color)]

\* Board.__init__ followed by initialize_board
InitBoard ==
    [r \in Idx |->
        CASE r = 0 -> BackRank("black")
          [] r = 1 -> PawnRank("black")
          [] r = 6 -> PawnRank("white")
          [] r = 7 -> BackRank("white")
          [] OTHER -> [c \in Idx |-> None]]

\* a Python list of length 8 accepts the indices -8 .. 7
PyIndexOK(i) == (0 - BoardSize) <= i /\ i < BoardSize

\* and counts a negative index from the end
PyIndex(i) == IF i < 0 THEN i + BoardSize ELSE i

\* self.board[position[0]][position[1]] raises IndexError
IndexFault(position) == ~(PyIndexOK(position[1]) /\ PyIndexOK(position[2]))

\* the cell self.board[position[0]][position[1]] denotes
CellOf(position) == <<PyIndex(position[1]), PyIndex(position[2])>>

get_piece_at(b, position) ==
    IF IndexFault(position)
    THEN IndexError
    ELSE b[CellOf(position)[1]][CellOf(position)[2]]

\* variant: the bounds test forgets the lower limit (to_x < 8 and to_y < 8)
is_valid_move_upper_only(b, piece, position_from, position_to) ==
    LET to_x == position_to[1]
        to_y == position_to[2]
    IN IF ~(to_x < BoardSize /\ to_y < BoardSize)
       THEN "OutOfBounds"
       ELSE IF get_piece_at(b, position_to) = IndexError
            THEN "IndexError"
            ELSE IF get_piece_at(b, position_to) # None
                    /\ get_piece_at(b, position_to).color = piece.color
                 THEN "FriendlyFire"
                 ELSE PieceMove(piece.kind, position_from, position_to)

\* variant: the piece rule is consulted before the same-colour test
is_valid_move_geometry_first(b, piece, position_from, position_to) ==
    LET to_x == position_to[1]
        to_y == position_to[2]
    IN IF ~(0 <= to_x /\ to_x < BoardSize /\ 0 <= to_y /\ to_y < BoardSize)
       THEN "OutOfBounds"
       ELSE LET v == PieceMove(piece.kind, position_from, position_to)
            IN IF v # "True"
               THEN v
               ELSE IF get_piece_at(b, position_to) # None
                       /\ get_piece_at(b, position_to).color = piece.color
                    THEN "FriendlyFire"
                    ELSE v

\* variant: the same-colour test is missing
is_valid_move_no_friendly_check(b, piece, position_from, position_to) ==
    LET to_x == position_to[1]
        to_y == position_to[2]
    IN IF ~(0 <= to_x /\ to_x < BoardSize /\ 0 <= to_y /\ to_y < BoardSize)
       THEN "OutOfBounds"
       ELSE PieceMove(piece.kind, position_from, position_to)

is_valid_move(b, piece, position_from, position_to) ==
    LET to_x == position_to[1]
        to_y == position_to[2]
    IN IF ~(0 <= to_x /\ to_x < BoardSize /\ 0 <= to_y /\ to_y < BoardSize)
       THEN "OutOfBounds"
       ELSE IF get_piece_at(b, position_to) # None
               /\ get_piece_at(b, position_to).color = piece.color
            THEN "FriendlyFire"
            ELSE PieceMove(piece.kind, position_from, position_to)

\* variant: the source cell is not cleared
WriteMoveKeepSource(b, piece, position_from, position_to) ==
    LET t == CellOf(position_to)
    IN [b EXCEPT ![t[1]][t[2]] = piece]

\* the two assignments of move_piece, in their order
WriteMove(b, piece, position_from, position_to) ==
    LET t == CellOf(position_to)
        f == CellOf(position_from)
        b1 == [b EXCEPT ![t[1]][t[2]] = piece]
    IN [b1 EXCEPT ![f[1]][f[2]] = None]

\* the destination assignment alone, skipped when the subscript would fail
WriteDest(b, piece, position_to) ==
    LET t == CellOf(position_to)
    IN IF t[1] \in Idx /\ t[2] \in Idx THEN [b EXCEPT ![t[1]][t[2]] = piece] ELSE b

Outcome(b, ret, exc, kind) == [board |-> b, ret |-> ret, exc |-> exc, kind |-> kind]

\* variant: the destination is written before the geometric verdict is read,
\* so an illegal move leaves the piece on both squares
move_piece_write_first(b, position_from, position_to) ==
    LET piece == get_piece_at(b, position_from)
    IN IF piece = IndexError
       THEN Outcome(b, "Raised", "IndexError", "IndexError")
       ELSE IF piece = None
            THEN Outcome(b, "Raised", "HTTPException", "EmptySource")
            ELSE LET v == is_valid_move(b, piece, position_from, position_to)
                 IN CASE v = "True" ->
                           Outcome(WriteMove(b, piece, position_from, position_to),
                                   "True", "none", "none")
                      [] v = "False" ->
                           Outcome(WriteDest(b, piece, position_to),
                                   "Raised", "HTTPException", "IllegalGeometry")
                      [] v = "TypeError" ->
                           Outcome(b, "Raised", "TypeError", "TypeError")
                      [] OTHER ->
                           Outcome(b, "Raised", "HTTPException", v)

\* variant: the destination's bounds are tested before the source is looked up
move_piece_bounds_first(b, position_from, position_to) ==
    LET piece == get_piece_at(b, position_from)
        to_x == position_to[1]
        to_y == position_to[2]
    IN IF ~(0 <= to_x /\ to_x < BoardSize /\ 0 <= to_y /\ to_y < BoardSize)
       THEN Outcome(b, "Raised", "HTTPException", "OutOfBounds")
       ELSE IF piece = IndexError
       THEN Outcome(b, "Raised", "IndexError", "IndexError")
       ELSE IF piece = None
            THEN Outcome(b, "Raised", "HTTPException", "EmptySource")
            ELSE LET v == is_valid_move(b, piece, position_from, position_to)
                 IN CASE v = "True" ->
                           Outcome(WriteMove(b, piece, position_from, position_to),
                                   "True", "none", "none")
                      [] v = "False" ->
                           Outcome(b, "Raised", "HTTPException", "IllegalGeometry")
                      [] v = "TypeError" ->
                           Outcome(b, "Raised", "TypeError", "TypeError")
                      [] OTHER ->
                           Outcome(b, "Raised", "HTTPException", v)

\* Board.move_piece: the board it leaves, whether it returned True, and the
\* exception it raised otherwise (class and failure kind)
move_piece(b, position_from, position_to) ==
    LET piece == get_piece_at(b, position_from)
    IN IF piece = IndexError
       THEN Outcome(b, "Raised", "IndexError", "IndexError")
       ELSE IF piece = None
            THEN Outcome(b, "Raised", "HTTPException", "EmptySource")
            ELSE LET v == is_valid_move(b, piece, position_from, position_to)
                 IN CASE v = "True" ->
                           Outcome(WriteMove(b, piece, position_from, position_to),
                                   "True", "none", "none")
                      [] v = "False" ->
                           Outcome(b, "Raised", "HTTPException", "IllegalGeometry")
                      [] v = "TypeError" ->
                           Outcome(b, "Raised", "TypeError", "TypeError")
                      [] OTHER ->
                           Outcome(b, "Raised", "HTTPException", v)

(***************************************************************************)
(* Game                                                                    *)
(***************************************************************************)
\* variant: the turn is handed to black after every successful move
NextPlayerStuck(player) == "black"

\* "black" if player == "white" else "white"
NextPlayer(player) == IF player = "white" THEN "black" ELSE "white"

NoCall ==
    [op |-> "none", player |-> "none", position_from |-> <<0, 0>>,
     position_to |-> <<0, 0>>, ret |-> "none", err |-> "none"]

Call(player, position_from, position_to, ret, err) ==
    [op |-> "move", player |-> player, position_from |-> position_from,
     position_to |-> position_to, ret |-> ret, err |-> err]

NoProbe == [kind |-> "None", position_from |-> <<0, 0>>, position_to |-> <<0, 0>>]

\* Game.__init__ and the module-level game = Game()
Init ==
    /\ board = InitBoard
    /\ current_player = "white"
    /\ call = NoCall
    /\ ply = 0
    /\ probe = NoProbe
    /\ verdict = "none"
    /\ thr = <<>>

\* Game.move(player, position_from, position_to), reached through POST /move
GameMove(player, position_from, position_to) ==
    /\ call.op = "none"
    /\ ply < MaxMoves
    /\ IF player = current_player
       THEN LET r == move_piece(board, position_from, position_to)
            IN /\ board' = r.board
               /\ IF r.ret = "True"
                  THEN /\ current_player' = NextPlayer(player)
                       /\ ply' = ply + 1
                       /\ call' = Call(player, position_from, position_to, "True", "none")
                  ELSE /\ UNCHANGED <<current_player, ply>>
                       /\ call' = Call(player, position_from, position_to,
                                       IF r.exc = "HTTPException" THEN "False" ELSE "Uncaught",
                                       r.kind)
       ELSE /\ call' = Call(player, position_from, position_to, "False", "WrongTurn")
            /\ UNCHANGED <<board, current_player, ply>>
    /\ UNCHANGED <<probe, verdict, thr>>

Move ==
    \E player \in Players, position_from \in InputSquares, position_to \in InputSquares :
        GameMove(player, position_from, position_to)

\* the endpoint hands the response to the client; the next request follows
Respond ==
    /\ call.op = "move"
    /\ call' = NoCall
    /\ UNCHANGED <<board, current_player, ply, probe, verdict, thr>>

Next == Move \/ Respond

Spec == Init /\ [][Next]_vars

(***************************************************************************)
(* The piece rule set on its own: every kind applied to drawn inputs       *)
(***************************************************************************)
RulesInit ==
    /\ board = InitBoard
    /\ current_player = "white"
    /\ call = NoCall
    /\ ply = 0
    /\ probe \in [kind : Kinds, position_from : RuleSquares, position_to : RuleSquares]
    /\ verdict = "none"
    /\ thr = <<>>

ApplyRule ==
    /\ verdict = "none"
    /\ verdict' = PieceMove(probe.kind, probe.position_from, probe.position_to)
    /\ UNCHANGED <<board, current_player, call, ply, probe, thr>>

RulesNext == ApplyRule

RulesSpec == RulesInit /\ [][RulesNext]_vars

(***************************************************************************)
(* The endpoints served by worker threads: FastAPI runs the plain `def`    *)
(* endpoints in a thread pool, the game object is shared and nothing locks *)
(* it.  Each thread serves one request, one source statement per step.     *)
(***************************************************************************)
Threads == {1, 2}

\* the squares the concurrent requests name
ConcFrom == {<<7, 0>>, <<7, 1>>}
ConcTo == {<<5, 0>>, <<4, 0>>}

\* a row serialize_board has not reached yet
UnreadRow == [c \in Idx |-> "unread"]

\* piece.__class__.__name__ if piece is not None else None, for one row
SerializeRow(row) == [c \in Idx |-> row[c].kind]

\* Board.serialize_board run without interruption
serialize_board(b) == [r \in Idx |-> SerializeRow(b[r])]

IdleThread ==
    [pc |-> "idle", op |-> "none", player |-> "none", position_from |-> <<0, 0>>,
     position_to |-> <<0, 0>>, piece |-> None, ret |-> "none", err |-> "none",
     row |-> 0, rows |-> [r \in Idx |-> UnreadRow]]

\* Game.move as a function of the state it starts in: the board and the
\* side-to-move it leaves and what the caller gets
GameMoveOutcome(b, cp, player, position_from, position_to) ==
    IF player = cp
    THEN LET r == move_piece(b, position_from, position_to)
         IN [board |-> r.board,
             current_player |-> IF r.ret = "True" THEN NextPlayer(player) ELSE cp,
             ret |-> IF r.ret = "True" THEN "True"
                     ELSE IF r.exc = "HTTPException" THEN "False" ELSE "Uncaught"]
    ELSE [board |-> b, current_player |-> cp, ret |-> "False"]

ConcInit ==
    /\ board = InitBoard
    /\ current_player = "white"
    /\ call = NoCall
    /\ ply = 0
    /\ probe = NoProbe
    /\ verdict = "none"
    /\ thr = [t \in Threads |-> IdleThread]

Finish(t, ret, err) ==
    thr' = [thr EXCEPT ![t].pc = "done", ![t].ret = ret, ![t].err = err]

\* POST /move arrives: move(move) calls game.move
ReceiveMove(t) ==
    /\ thr[t].pc = "idle"
    /\ \E player \in Players, position_from \in ConcFrom, position_to \in ConcTo :
          thr' = [thr EXCEPT ![t].pc = "turn", ![t].op = "move", ![t].player = player,
                             ![t].position_from = position_from,
                             ![t].position_to = position_to]
    /\ UNCHANGED <<board, current_player, call, ply, probe, verdict>>

\* GET /get_board arrives: get_board calls serialize_board
ReceiveGetBoard(t) ==
    /\ thr[t].pc = "idle"
    /\ thr' = [thr EXCEPT ![t].pc = "read", ![t].op = "get_board"]
    /\ UNCHANGED <<board, current_player, call, ply, probe, verdict>>

\* if player == self.current_player
CheckTurn(t) ==
    /\ thr[t].pc = "turn"
    /\ IF thr[t].player = current_player
       THEN thr' = [thr EXCEPT ![t].pc = "lookup"]
       ELSE Finish(t, "False", "WrongTurn")
    /\ UNCHANGED <<board, current_player, call, ply, probe, verdict>>

\* piece = self.get_piece_at(position_from); if piece
Lookup(t) ==
    /\ thr[t].pc = "lookup"
    /\ LET piece == get_piece_at(board, thr[t].position_from)
       IN IF piece = IndexError
          THEN Finish(t, "Uncaught", "IndexError")
          ELSE IF piece = None
               THEN Finish(t, "False", "EmptySource")
               ELSE thr' = [thr EXCEPT ![t].pc = "validate", ![t].piece = piece]
    /\ UNCHANGED <<board, current_player, call, ply, probe, verdict>>

\* if self.is_valid_move(piece, position_from, position_to)
Validate(t) ==
    /\ thr[t].pc = "validate"
    /\ LET v == is_valid_move(board, thr[t].piece, thr[t].position_from, thr[t].position_to)
       IN CASE v = "True" -> thr' = [thr EXCEPT ![t].pc = "write_to"]
            [] v = "False" -> Finish(t, "False", "IllegalGeometry")
            [] v = "TypeError" -> Finish(t, "Uncaught", "TypeError")
            [] OTHER -> Finish(t, "False", v)
    /\ UNCHANGED <<board, current_player, call, ply, probe, verdict>>

\* self.board[position_to[0]][position_to[1]] = piece
WriteTo(t) ==
    /\ thr[t].pc = "write_to"
    /\ LET c == CellOf(thr[t].position_to)
       IN board' = [board EXCEPT ![c[1]][c[2]] = thr[t].piece]
    /\ thr' = [thr EXCEPT ![t].pc = "clear_from"]
    /\ UNCHANGED <<current_player, call, ply, probe, verdict>>

\* self.board[position_from[0]][position_from[1]] = None
ClearFrom(t) ==
    /\ thr[t].pc = "clear_from"
    /\ LET c == CellOf(thr[t].position_from)
       IN board' = [board EXCEPT ![c[1]][c[2]] = None]
    /\ thr' = [thr EXCEPT ![t].pc = "flip"]
    /\ UNCHANGED <<current_player, call, ply, probe, verdict>>

\* self.current_player = "black" if player == "white" else "white"; return True
Flip(t) ==
    /\ thr[t].pc = "flip"
    /\ current_player' = NextPlayer(thr[t].player)
    /\ Finish(t, "True", "none")
    /\ UNCHANGED <<board, call, ply, probe, verdict>>

\* one turn of `for row in self.board` in serialize_board
ReadRow(t) ==
    /\ thr[t].pc = "read"
    /\ LET r == thr[t].row
       IN thr' = [thr EXCEPT ![t].rows[r] = SerializeRow(board[r]),
                              ![t].row = r + 1,
                              ![t].pc = IF r + 1 = BoardSize THEN "done" ELSE "read",
                              ![t].ret = IF r + 1 = BoardSize THEN "board" ELSE "none"]
    /\ UNCHANGED <<board, current_player, call, ply, probe, verdict>>

ConcNext ==
    \E t \in Threads :
        \/ ReceiveMove(t)
        \/ ReceiveGetBoard(t)
        \/ CheckTurn(t)
        \/ Lookup(t)
        \/ Validate(t)
        \/ WriteTo(t)
        \/ ClearFrom(t)
        \/ Flip(t)
        \/ ReadRow(t)

ConcSpec == ConcInit /\ [][ConcNext]_vars


(***************************************************************************)
(* Properties                                                              *)
(***************************************************************************)
\* a coordinate pair that names a square of the 8x8 grid
InBoard(position) == position[1] \in Idx /\ position[2] \in Idx

\* the number of occupied squares
Occupants(b) == Cardinality({sq \in Idx \X Idx : b[sq[1]][sq[2]] # None})

\* C1: the side-to-move starts at white; it changes exactly on the steps in
\* which a Game.move call returns true, then to the other side, and the call
\* was made by the side that was to move; so after n successful moves it is
\* white for even n and black for odd n, and an out-of-turn call keeps it
C1_TurnAlternation ==
    /\ current_player = "white"
    /\ [](current_player = (IF ply % 2 = 0 THEN "white" ELSE "black"))
    /\ [][ /\ (current_player' # current_player)
                <=> (call'.op = "move" /\ call'.ret = "True")
           /\ (call'.op = "move" /\ call'.ret = "True")
                => /\ call'.player = current_player
                   /\ current_player' \in Players \ {current_player}
                   /\ ply' = ply + 1
           /\ (call'.op = "move" /\ call'.player # current_player)
                => /\ current_player' = current_player
                   /\ call'.ret = "False" ]_vars

\* white moved, black moved, and white is to move again
C1_Witness ==
    /\ ply = 2
    /\ call.op = "move"
    /\ call.player = "black"
    /\ call.ret = "True"
    /\ current_player = "white"

\* C2: every Game.move call that does not succeed returns false and leaves
\* the 64 cells and the side-to-move as they were.  Stated for the requests
\* by the side to move whose source square holds a piece and whose
\* destination is on the board and not held by a piece of the same colour:
\* such a request either succeeds or is an illegal-geometry failure
C2_FailureReturnsFalse ==
    [][ (/\ call'.op = "move"
         /\ call'.player = current_player
         /\ InBoard(call'.position_from)
         /\ InBoard(call'.position_to)
         /\ get_piece_at(board, call'.position_from) # None
         /\ get_piece_at(board, call'.position_to).color
              # get_piece_at(board, call'.position_from).color
         /\ call'.ret # "True")
        => /\ call'.ret = "False"
           /\ board' = board
           /\ current_player' = current_player ]_vars

\* C3: Game.move ends with a boolean for every request
C3_AlwaysBoolean == call.op = "move" => call.ret \in {"True", "False"}

\* C4 as stated: the number of occupied squares is 32 in every state
C4_CountConserved == Occupants(board) = 32

\* C4 amended: the number of occupied squares never grows; a failing attempt
\* and a successful move onto an empty square keep it, a successful move onto
\* an occupied square lowers it by exactly one; it is 32 at the start
C4_CountNeverGrows ==
    /\ Occupants(board) = 32
    /\ [](Occupants(board) <= 32)
    /\ [][ call'.op = "move" =>
             Occupants(board') =
                IF call'.ret = "True" /\ get_piece_at(board, call'.position_to) # None
                THEN Occupants(board) - 1
                ELSE Occupants(board) ]_vars

\* a capture has happened
C4_Witness ==
    /\ call.op = "move"
    /\ call.ret = "True"
    /\ Occupants(board) = 31

\* the table's Rook and Bishop rows
RookRule(f, t) == f[1] = t[1] \/ f[2] = t[2]
BishopRule(f, t) == Abs(f[1] - t[1]) = Abs(f[2] - t[2])

\* C5: for a Queen the rule returns true exactly when the Rook rule or the
\* Bishop rule holds, and a boolean in every case
C5_QueenRule ==
    (verdict # "none" /\ probe.kind = "Queen")
    => verdict = Bool(RookRule(probe.position_from, probe.position_to)
                      \/ BishopRule(probe.position_from, probe.position_to))

\* C6: from the starting position Game.move(white, (6,4), (5,4)) returns
\* true, hands the turn to black, empties (6,4) and puts a white Pawn on (5,4)
C6_PawnAdvance ==
    [][ (/\ board = InitBoard
         /\ current_player = "white"
         /\ call'.op = "move"
         /\ call'.player = "white"
         /\ call'.position_from = <<6, 4>>
         /\ call'.position_to = <<5, 4>>)
        => /\ call'.ret = "True"
           /\ current_player' = "black"
           /\ board'[6][4] = None
           /\ board'[5][4] = Piece("Pawn", "white") ]_vars

\* the table of legal shapes, dx and dy the absolute rank and file differences
TableVerdict(kind, f, t) ==
    LET dx == Abs(f[1] - t[1])
        dy == Abs(f[2] - t[2])
    IN CASE kind = "King" -> dx <= 1 /\ dy <= 1
         [] kind = "Rook" -> f[1] = t[1] \/ f[2] = t[2]
         [] kind = "Bishop" -> dx = dy
         [] kind = "Knight" -> <<dx, dy>> \in {<<2, 1>>, <<1, 2>>}
         [] kind = "Pawn" -> f[1] = t[1] /\ dy = 1

\* C7: King, Rook, Bishop, Knight and Pawn return exactly the table's
\* verdict for every (from, to) pair
C7_RuleTable ==
    (verdict # "none" /\ probe.kind \in Kinds \ {"Queen"})
    => verdict = Bool(TableVerdict(probe.kind, probe.position_from, probe.position_to))

\* a pawn was asked for a step along its rank and the rule accepted it
C7_Witness ==
    /\ probe.kind = "Pawn"
    /\ probe.position_from = <<6, 4>>
    /\ probe.position_to = <<6, 5>>
    /\ verdict = "True"

\* C8: whenever is_valid_move runs (the side to move names a source that
\* holds a piece), a destination off the board fails with OutOfBounds
\* whatever the piece kind and the geometry, and a destination on the board
\* that holds a piece of the mover's colour fails with FriendlyFire whatever
\* the geometry
C8_ValidationOrder ==
    [][ (/\ call'.op = "move"
         /\ call'.player = current_player
         /\ get_piece_at(board, call'.position_from) \notin {None, IndexError})
        => /\ ~InBoard(call'.position_to)
              => (call'.ret = "False" /\ call'.err = "OutOfBounds")
           /\ (/\ InBoard(call'.position_to)
               /\ board[call'.position_to[1]][call'.position_to[2]].color
                    = get_piece_at(board, call'.position_from).color)
              => (call'.ret = "False" /\ call'.err = "FriendlyFire") ]_vars

\* a Knight was sent to a negative rank by a shape its rule rejects as well
C8_Witness ==
    /\ call.op = "move"
    /\ call.err = "OutOfBounds"
    /\ call.position_to[1] < 0
    /\ get_piece_at(board, call.position_from).kind = "Knight"
    /\ KnightMove(call.position_from, call.position_to) = "False"

\* C9: a lookup outside [0,8)x[0,8) fails and never yields another cell's
\* occupant; seen at the source lookup of move_piece: a request by the side
\* to move whose source is off the board ends in the out-of-range failure
C9_LookupOutOfRangeFails ==
    [][ (/\ call'.op = "move"
         /\ call'.player = current_player
         /\ ~InBoard(call'.position_from))
        => /\ call'.ret # "True"
           /\ call'.err \in {"IndexError", "OutOfBounds"} ]_vars

\* C10: after a failing move_piece the board is the one before the call, and
\* the same request on it fails again with the same failure kind
C10_RejectionIdempotent ==
    /\ [](  (call.op = "move" /\ call.ret # "True" /\ call.err # "WrongTurn")
            => LET again == move_piece(board, call.position_from, call.position_to)
               IN /\ again.ret = "Raised"
                  /\ again.kind = call.err
                  /\ again.board = board )
    /\ [][ (call'.op = "move" /\ call'.ret # "True") => board' = board ]_vars

\* an illegal-geometry failure of a piece standing on the board
C10_Witness ==
    /\ call.op = "move"
    /\ call.ret = "False"
    /\ call.err = "IllegalGeometry"
    /\ InBoard(call.position_to)
    /\ board[call.position_to[1]][call.position_to[2]] = None

\* C11 as stated: from the starting position the request to move the Knight
\* at (7,1) to (7,3) fails with IllegalGeometry and leaves the board unchanged
C11_KnightIllegalGeometry ==
    [][ (/\ board = InitBoard
         /\ current_player = "white"
         /\ call'.op = "move"
         /\ call'.player = "white"
         /\ call'.position_from = <<7, 1>>
         /\ call'.position_to = <<7, 3>>)
        => /\ call'.ret = "False"
           /\ call'.err = "IllegalGeometry"
           /\ board' = board ]_vars

\* C11 amended: that request fails with FriendlyFire, since (7,3) holds the
\* white Queen and the same-colour test precedes the Knight's rule (which
\* rejects the shape as well); the board and the side-to-move are unchanged
C11_KnightFriendlyFire ==
    [][ (/\ board = InitBoard
         /\ current_player = "white"
         /\ call'.op = "move"
         /\ call'.player = "white"
         /\ call'.position_from = <<7, 1>>
         /\ call'.position_to = <<7, 3>>)
        => /\ call'.ret = "False"
           /\ call'.err = "FriendlyFire"
           /\ KnightMove(call'.position_from, call'.position_to) = "False"
           /\ board[7][3] = Piece("Queen", "white")
           /\ board' = board
           /\ current_player' = current_player ]_vars

\* the Knight's request has been answered on the untouched starting position
C11_Witness ==
    /\ board = InitBoard
    /\ call.op = "move"
    /\ call.player = "white"
    /\ call.position_from = <<7, 1>>
    /\ call.position_to = <<7, 3>>
    /\ call.ret = "False"

\* C12: when move_piece runs for a source that holds a piece and the
\* destination square holds a piece of the same colour, the request fails
\* with FriendlyFire and nothing is written; a successful move never lands on
\* a piece of the mover's colour; from the starting position the white Rook
\* at (7,0) sent to (7,1) fails with FriendlyFire
C12_NoFriendlyCapture ==
    [][ call'.op = "move" =>
          LET f == call'.position_from
              t == call'.position_to
              piece == get_piece_at(board, f)
          IN /\ (/\ call'.player = current_player
                 /\ piece \notin {None, IndexError}
                 /\ InBoard(t)
                 /\ board[t[1]][t[2]].color = piece.color)
                => (call'.ret = "False" /\ call'.err = "FriendlyFire" /\ board' = board)
             /\ call'.ret = "True"
                => (InBoard(t) /\ board[t[1]][t[2]].color # board'[t[1]][t[2]].color)
             /\ (/\ board = InitBoard
                 /\ call'.player = "white"
                 /\ f = <<7, 0>>
                 /\ t = <<7, 1>>)
                => call'.err = "FriendlyFire" ]_vars

\* the Rook's request was refused after a move had already been played
C12_Witness ==
    /\ ply = 1
    /\ call.op = "move"
    /\ call.err = "FriendlyFire"
    /\ InBoard(call.position_from)
    /\ board[call.position_from[1]][call.position_from[2]].kind = "Rook"
    /\ call.position_from # call.position_to

\* C15: a successful move_piece(from, to) puts the occupant of from on to,
\* empties from and leaves the other 62 cells as they were; a failing one
\* changes no cell (from is the cell the source lookup denotes)
C15_MoveFrame ==
    [][ call'.op = "move" =>
          IF call'.ret = "True"
          THEN LET f == CellOf(call'.position_from)
                   t == call'.position_to
               IN /\ f # t
                  /\ board[f[1]][f[2]] # None
                  /\ board'[t[1]][t[2]] = board[f[1]][f[2]]
                  /\ board'[f[1]][f[2]] = None
                  /\ \A sq \in (Idx \X Idx) \ {f, t} :
                        board'[sq[1]][sq[2]] = board[sq[1]][sq[2]]
          ELSE board' = board ]_vars

\* a capture by a piece named by its own square
C15_Witness ==
    /\ call.op = "move"
    /\ call.ret = "True"
    /\ InBoard(call.position_from)
    /\ board[call.position_from[1]][call.position_from[2]] = None
    /\ board[call.position_to[1]][call.position_to[2]] # None
    /\ Occupants(board) < 32

\* C16: move_piece for a source square on the board that is empty fails with
\* EmptySource whatever the destination, also one off the board, and leaves
\* the board unchanged
C16_EmptySource ==
    [][ (/\ call'.op = "move"
         /\ call'.player = current_player
         /\ InBoard(call'.position_from)
         /\ board[call'.position_from[1]][call'.position_from[2]] = None)
        => /\ call'.ret = "False"
           /\ call'.err = "EmptySource"
           /\ board' = board ]_vars

\* an empty source with a destination off the board
C16_Witness ==
    /\ call.op = "move"
    /\ call.err = "EmptySource"
    /\ InBoard(call.position_from)
    /\ ~InBoard(call.position_to)

\* the standard arrangement, rank by rank, as kind names
StandardBackRank == <<"Rook", "Knight", "Bishop", "Queen", "King", "Bishop", "Knight", "Rook">>

\* C17: as long as no move has succeeded the Game is as created: white to
\* move, rank 0 the black back rank, rank 1 black Pawns, ranks 2 to 5
\* empty, rank 6 white Pawns, rank 7 the white back rank, 32 occupants and
\* one King of each side
C17_FreshGame ==
    ply = 0 =>
      /\ current_player = "white"
      /\ \A c \in Idx :
            /\ board[0][c] = [kind |-> StandardBackRank[c + 1], color |-> "black"]
            /\ board[1][c] = [kind |-> "Pawn", color |-> "black"]
            /\ \A r \in 2 .. 5 : board[r][c] = None
            /\ board[6][c] = [kind |-> "Pawn", color |-> "white"]
            /\ board[7][c] = [kind |-> StandardBackRank[c + 1], color |-> "white"]
      /\ Occupants(board) = 32
      /\ \A color \in Players :
            Cardinality({sq \in Idx \X Idx :
                           board[sq[1]][sq[2]] = [kind |-> "King", color |-> color]}) = 1

\* the Game right after its construction
C17_Witness ==
    /\ ply = 0
    /\ call = NoCall
    /\ board[7][4] = [kind |-> "King", color |-> "white"]
    /\ board[0][3] = [kind |-> "Queen", color |-> "black"]

\* C18: every successful Game.move(player, from, to) relocates a piece of
\* player's colour
C18_MovesOwnPiece ==
    [][ (call'.op = "move" /\ call'.ret = "True")
        => get_piece_at(board, call'.position_from).color = call'.player ]_vars

\* the number of pieces of a kind and colour
CountOf(b, kind, color) ==
    Cardinality({sq \in Idx \X Idx : b[sq[1]][sq[2]] = [kind |-> kind, color |-> color]})

\* C19: no count of a (kind, colour) pair ever grows; a successful move onto
\* an empty square keeps every count, a successful move onto an occupied
\* square lowers exactly the count of the captured piece, by one, and that
\* piece is of the colour opposite to the mover's; each side has at most one
\* King in every state
C19_PieceCounts ==
    /\ [](\A color \in Players : CountOf(board, "King", color) <= 1)
    /\ [][ call'.op = "move" =>
             IF call'.ret # "True"
             THEN board' = board
             ELSE LET mover == get_piece_at(board, call'.position_from)
                      taken == get_piece_at(board, call'.position_to)
                  IN /\ \A kind \in Kinds, color \in Players :
                          CountOf(board', kind, color) =
                             (IF taken = [kind |-> kind, color |-> color]
                              THEN CountOf(board, kind, color) - 1
                              ELSE CountOf(board, kind, color))
                     /\ taken # None
                          => (taken.color \in Players /\ taken.color # mover.color) ]_vars

\* a King has been captured
C19_Witness ==
    /\ call.op = "move"
    /\ call.ret = "True"
    /\ \E color \in Players : CountOf(board, "King", color) = 0

\* C20: Game.move(player, s, s) for a square s of the board returns false and
\* leaves the board and the side-to-move unchanged
C20_NoNullMove ==
    [][ (/\ call'.op = "move"
         /\ InBoard(call'.position_from)
         /\ call'.position_to = call'.position_from)
        => /\ call'.ret = "False"
           /\ board' = board
           /\ current_player' = current_player ]_vars

\* the side to move asked its Queen to stay where it is
C20_Witness ==
    /\ call.op = "move"
    /\ call.player = current_player
    /\ call.position_to = call.position_from
    /\ InBoard(call.position_from)
    /\ board[call.position_from[1]][call.position_from[2]].kind = "Queen"
    /\ call.ret = "False"

\* C13: a board query that overlaps a move returns the complete board from
\* before the move or the complete board from after it
C13_QueryAtomic ==
    \A q \in Threads, m \in Threads :
        (/\ thr[q].op = "get_board"
         /\ thr[q].pc = "done"
         /\ thr[m].op = "move")
        => thr[q].rows \in
             {serialize_board(InitBoard),
              serialize_board(GameMoveOutcome(InitBoard, "white", thr[m].player,
                                              thr[m].position_from,
                                              thr[m].position_to).board)}

\* what two requests leave when the first is served to its end before the
\* second starts: the board, the side-to-move and both results
Serial(first, second) ==
    LET a == GameMoveOutcome(InitBoard, "white", first.player,
                             first.position_from, first.position_to)
        b == GameMoveOutcome(a.board, a.current_player, second.player,
                             second.position_from, second.position_to)
    IN [board |-> b.board, current_player |-> b.current_player,
        first |-> a.ret, second |-> b.ret]

\* C14: two move requests issued together leave what serving them one after
\* the other, in one of the two orders, leaves
C14_MovesSerializable ==
    (/\ thr[1].op = "move" /\ thr[1].pc = "done"
     /\ thr[2].op = "move" /\ thr[2].pc = "done")
    => \/ [board |-> board, current_player |-> current_player,
           first |-> thr[1].ret, second |-> thr[2].ret] = Serial(thr[1], thr[2])
       \/ [board |-> board, current_player |-> current_player,
           first |-> thr[2].ret, second |-> thr[1].ret] = Serial(thr[2], thr[1])

====
